---- MODULE Spec2Model ----
(***************************************************************************)
(* Model of the OOADEduDemo slide/chat application.                        *)
(*                                                                         *)
(*   SpecContext : GET /api/context        (src/src/app/page.tsx 594-629)   *)
(*   SpecChat    : POST /api/chat, both routes (src/unnamed/part_000)       *)
(*   SpecLLM     : the useLLM hook          (src/unnamed/part_002)          *)
(*   Spec        : the Home page tool-call loop (src/src/app/page.tsx)      *)
(*   SpecCanvas  : either chat front end mounted (Home page or useLLM)      *)
(*   SpecTools   : the Home page with every kind of tool call               *)
(*   SpecBurst   : the Home page, several tool calls in one response        *)
(*   SpecPages   : the Home page with viewer, uploads and loadContext       *)
(*   SpecIntro   : the same with the intro effect                           *)
(*                                                                         *)
(* JavaScript values are modelled as tagged records, so that typeof, ||,   *)
(* truthiness and property lookup are computed as the language does.       *)
(***************************************************************************)
EXTENDS Integers, Sequences, FiniteSets, TLC

VARIABLES
    \* ---- GET /api/context ----
    ctxReq,          \* the query parameters of the request being served
    ctxResp,         \* the response produced for ctxReq (status "none" before)
    sampleContexts,  \* the module-level SAMPLE_CONTEXTS object (own keys)
    \* ---- POST /api/chat ----
    postReq,         \* the request: deployed route, parsed body, model outcome
    postResp,        \* the response of the handler (status 0 before)
    modelInput,      \* what the handler handed to the model, if it called it
    \* ---- the useLLM hook ----
    llmParams,        \* the hook's parameters: includeHistory, onSlideChange given
    hookMessages,      \* useState messages (the role of each message)
    llmIsLoading,     \* useState isLoading
    llmError,         \* useState error ("null" when none)
    llmCanvas,        \* useState canvasContent
    llmPc,            \* where sendMessage is: "idle", "awaitPost", "awaitSlide"
    currentMessages,  \* sendMessage's local currentMessages
    iterationCount,   \* sendMessage's local iterationCount
    hasFunctionCall,  \* sendMessage's local hasFunctionCall
    posts,            \* POSTs to /api/chat issued by the current sendMessage call
    plainSeen,        \* the current call received a response without function_call
    \* ---- the Home page ----
    pdfUrl,                  \* useState pdfUrl
    currentPage,             \* useState currentPage
    totalPages,              \* useState totalPages
    slideContext,            \* useState slideContext (NullContext when null)
    introGenerated,          \* useState introGenerated: the pages flagged true
    llmInitiatedPageChange,  \* useState llmInitiatedPageChange
    canvasContent,           \* useState canvasContent
    isProcessingToolCall,    \* useState isProcessingToolCall
    toolCallCount,           \* useState toolCallCount
    chat,                    \* useChat's request: status, the render its callbacks
                             \* close over, the slide switch onToolCall awaits
    timers,                  \* pending setTimeout(..., 100) follow-ups, each with
                             \* the render its closure belongs to
    lastResult,              \* the value onToolCall returned last while the
                             \* current response was processed
    chainTools,              \* tool calls not refused since the last user action
    fetches,                 \* loadContext's fetchSlideContext requests in flight,
                             \* each with the values its closure holds
    loadDeps,                \* [currentPage, pdfUrl, totalPages] at the last run
                             \* of the loadContext effect
    introCount,              \* per page: intro prompts appended since
                             \* introGenerated was last reset
    llmPages,                \* pages handleSlideChange accepted since
                             \* introGenerated was last reset
    callStart                \* currentPage and introGenerated when the running
                             \* onToolCall invocation began

ctxVars == <<ctxReq, ctxResp, sampleContexts>>
postVars == <<postReq, postResp, modelInput>>
llmVars == <<llmParams, hookMessages, llmIsLoading, llmError, llmCanvas, llmPc,
             currentMessages, iterationCount, hasFunctionCall, posts, plainSeen>>

homeVars == <<pdfUrl, currentPage, totalPages, slideContext, introGenerated,
              llmInitiatedPageChange, canvasContent, isProcessingToolCall,
              toolCallCount, chat, timers, lastResult, chainTools,
              fetches, loadDeps, introCount, llmPages, callStart>>

vars == <<ctxVars, postVars, llmVars, homeVars>>

----------------------------------------------------------------------------
(* Bounds of the model *)

\* longest page= query string drawn (characters)
MaxLen == 3
\* longest chat history in a POST /api/chat body
MaxMsgs == 2
\* sendMessage is called while the hook holds at most this many messages
MaxHistory == 1
\* slides of the loaded PDF
MaxPages == 2
\* follow-up timers pending at once on the Home page
MaxTimers == 1
\* tool calls per user submission in the specification that draws every
\* kind of tool call
MaxChain == 2
\* slides of the PDF the user uploads
UploadPages == 1
\* loadContext fetches in flight at once
MaxFetches == 2
\* intro prompts appended for one page between two resets
MaxIntros == 2

----------------------------------------------------------------------------
(* GET /api/context *)

\* Number of entries of SAMPLE_CONTEXTS['/sample.pdf'] (keys "1" .. "10")
NumSamplePages == 10

\* SAMPLE_CONTEXTS: own key '/sample.pdf', whose value maps page -> context.
\* A stored context is identified by the page whose entry it is.
SAMPLE_CONTEXTS ==
    [u \in {"/sample.pdf"} |->
        [p \in 1..NumSamplePages |-> [title |-> p, content |-> p]]]

\* Property names every object literal inherits from Object.prototype: a
\* bracket lookup obj[key] finds them although they are not own keys.
ObjectPrototypeKeys == {"constructor", "__proto__", "toString"}

\* obj[key] for an object literal with own properties `own`:
\*   the own value; else the inherited (truthy, non-deck) value; else undefined.
Lookup(own, key) ==
    IF key \in DOMAIN own THEN [kind |-> "deck", deck |-> own[key]]
    ELSE IF key \in ObjectPrototypeKeys THEN [kind |-> "inherited"]
    ELSE [kind |-> "undefined"]

\* characters a page= string is drawn from
Chars == {"0", "1", "9", "a", "-", " "}
DigitChars == <<"0", "1", "2", "3", "4", "5", "6", "7", "8", "9">>
Digits == {DigitChars[i] : i \in 1..10}
DigitVal(c) == (CHOOSE i \in 1..10 : DigitChars[i] = c) - 1

RECURSIVE SkipSpaces(_)
SkipSpaces(s) ==
    IF s # <<>> /\ Head(s) = " " THEN SkipSpaces(Tail(s)) ELSE s

RECURSIVE DigitPrefix(_, _, _)
\* value of the longest digit prefix of s; n counts the digits consumed
DigitPrefix(s, acc, n) ==
    IF s # <<>> /\ Head(s) \in Digits
    THEN DigitPrefix(Tail(s), 10 * acc + DigitVal(Head(s)), n + 1)
    ELSE [val |-> acc, digits |-> n]

\* parseInt(str, 10): leading white space skipped, optional sign, then the
\* longest run of decimal digits; NaN when there is no digit.
ParseInt(str) ==
    LET t    == SkipSpaces(str)
        neg  == t # <<>> /\ Head(t) = "-"
        body == IF neg THEN Tail(t) ELSE t
        d    == DigitPrefix(body, 0, 0)
    IN  IF d.digits = 0 THEN [nan |-> TRUE, val |-> 0]
        ELSE [nan |-> FALSE, val |-> IF neg THEN 0 - d.val ELSE d.val]

\* searchParams.get(name): null when the parameter is absent, else its string
\* (page strings are character sequences, pdfUrl strings are opaque names)
Absent == [present |-> FALSE, empty |-> FALSE, str |-> <<>>]
Param(s) == [present |-> TRUE, empty |-> (s = <<>>), str |-> s]
UrlParam(u) == [present |-> TRUE, empty |-> (u = ""), str |-> u]
AbsentUrl == [present |-> FALSE, empty |-> FALSE, str |-> ""]

\* !x for the result of searchParams.get: null and '' are falsy
Falsy(p) == ~p.present \/ p.empty

Response(st, err, b) == [status |-> st, error |-> err, body |-> b]

NoBody == [title |-> 0, content |-> 0]

GETPageZero(contexts, urlParam, pageStr) ==
    \* GET with the page validated by page < 0: page 0 reaches the lookup
    IF Falsy(urlParam) \/ Falsy(pageStr)
    THEN Response(400, "missing", NoBody)
    ELSE LET page == ParseInt(pageStr.str) IN
         IF page.nan \/ page.val < 0
         THEN Response(400, "invalid page", NoBody)
         ELSE LET own == Lookup(contexts, urlParam.str)
                  pdfData == IF own.kind # "undefined" THEN own
                             ELSE Lookup(contexts, "/sample.pdf")
              IN IF pdfData.kind = "deck" /\ page.val \in DOMAIN pdfData.deck
                 THEN Response(200, "", pdfData.deck[page.val])
                 ELSE Response(404, "not found", NoBody)

\* The route handler as a function of the map and the two query parameters
GET(contexts, urlParam, pageStr) ==
    IF Falsy(urlParam) \/ Falsy(pageStr)
    THEN Response(400, "missing", NoBody)
    ELSE LET page == ParseInt(pageStr.str) IN
         IF page.nan \/ page.val < 1
         THEN Response(400, "invalid page", NoBody)
         ELSE LET own == Lookup(contexts, urlParam.str)
                  \* SAMPLE_CONTEXTS[urlParam] || SAMPLE_CONTEXTS['/sample.pdf']
                  pdfData == IF own.kind # "undefined" THEN own
                             ELSE Lookup(contexts, "/sample.pdf")
              IN IF pdfData.kind = "deck" /\ page.val \in DOMAIN pdfData.deck
                 THEN Response(200, "", pdfData.deck[page.val])
                 ELSE Response(404, "not found", NoBody)

RECURSIVE StringsUpTo(_)
StringsUpTo(n) ==
    IF n = 0 THEN {<<>>}
    ELSE LET shorter == StringsUpTo(n - 1)
         IN shorter \cup {Append(s, c) : s \in shorter, c \in Chars}

PageStrings == {Absent} \cup {Param(s) : s \in StringsUpTo(MaxLen)}

\* pdfUrl parameters: the sample deck, an uploaded file's blob URL, an
\* arbitrary client-chosen string, the empty string, and none
PdfUrlStrings == {"/sample.pdf", "blob:upload", "constructor", ""}
PdfUrlParams == {AbsentUrl} \cup {UrlParam(u) : u \in PdfUrlStrings}

NoResponse == Response(0, "none", NoBody)

\* the route receives a request
ContextStart ==
    /\ ctxReq \in [pdfUrl : PdfUrlParams, page : PageStrings]
    /\ ctxResp = NoResponse
    /\ sampleContexts = SAMPLE_CONTEXTS

\* the route is not exercised
ContextIdle ==
    /\ ctxReq = [pdfUrl |-> AbsentUrl, page |-> Absent]
    /\ ctxResp = NoResponse
    /\ sampleContexts = SAMPLE_CONTEXTS

\* the server handles the request
ServeContext ==
    /\ ctxResp = NoResponse
    /\ ctxResp' = GET(sampleContexts, ctxReq.pdfUrl, ctxReq.page)
    /\ UNCHANGED <<ctxReq, sampleContexts>>
    /\ UNCHANGED <<postVars, llmVars, homeVars>>

\* the client sends another request: the same page of the same or another deck
NextContextRequest ==
    /\ ctxResp # NoResponse
    /\ \E u \in PdfUrlParams : ctxReq' = [ctxReq EXCEPT !.pdfUrl = u]
    /\ ctxResp' = NoResponse
    /\ UNCHANGED sampleContexts
    /\ UNCHANGED <<postVars, llmVars, homeVars>>


----------------------------------------------------------------------------
(* POST /api/chat: the streaming route and the function-calling route *)

\* JSON values of the body's fields, by what the handler can observe of them
Undefined == [kind |-> "undefined"]

\* a chat message of the client: role, content, optional function_call, and
\* a client-side id the routes know nothing about
Msg(r, c, fc) == [kind |-> "object", role |-> r, content |-> c,
                  function_call |-> fc, id |-> c]
NullItem == [kind |-> "null", role |-> "", content |-> 0,
             function_call |-> FALSE, id |-> 0]
MsgItems == {Msg("user", 1, FALSE), Msg("assistant", 2, TRUE),
             Msg("system", 3, FALSE), NullItem}

RECURSIVE SeqsUpTo(_, _)
SeqsUpTo(S, n) ==
    IF n = 0 THEN {<<>>}
    ELSE LET shorter == SeqsUpTo(S, n - 1)
         IN shorter \cup {Append(q, x) : q \in shorter, x \in S}

\* the body's messages field
MessagesValues ==
    {[kind |-> k, items |-> <<>>] :
        k \in {"undefined", "null", "emptystring", "string", "object"}}
    \cup {[kind |-> "array", items |-> q] : q \in SeqsUpTo(MsgItems, MaxMsgs)}

\* the body's context field: keywords is "array", "undefined" or "other"
\* (a truthy value without a join method)
ContextValues ==
    {[kind |-> k, title |-> "", keywords |-> "undefined"] :
        k \in {"undefined", "null", "zero", "string"}}
    \cup {[kind |-> "object", title |-> t, keywords |-> kw] :
            t \in {"", "T"}, kw \in {"array", "undefined", "other"}}

\* truthiness of a JSON value
Truthy(v) == v.kind \notin {"undefined", "null", "zero", "emptystring"}

\* the result of request.json(): a syntax error, null, a primitive or array
\* (no messages/context properties), or an object
Bodies ==
    {[kind |-> k, messages |-> Undefined, context |-> Undefined] :
        k \in {"invalid", "null", "primitive"}}
    \cup {[kind |-> "object", messages |-> m, context |-> c] :
            m \in MessagesValues, c \in ContextValues}

\* getSystemPrompt(context): the fields the template interpolates;
\* `x || '未提供'` replaces a falsy field
SystemPrompt(context) ==
    [title    |-> IF context.kind = "object" /\ context.title # ""
                  THEN context.title ELSE "not provided",
     keywords |-> IF context.kind = "object" /\ context.keywords = "array"
                  THEN "joined" ELSE ""]

\* context.keywords.join throws when keywords is truthy and not an array
PromptThrows(context) == context.kind = "object" /\ context.keywords = "other"

NotCalled == [called |-> FALSE, system |-> <<>>, messages |-> <<>>]
NoPostResp == [status |-> 0, error |-> ""]
IdlePostReq == [route |-> "none", body |-> [kind |-> "invalid",
                messages |-> Undefined, context |-> Undefined],
                modelThrows |-> FALSE]

Result(st, err, call) == [resp |-> [status |-> st, error |-> err], call |-> call]

\* the catch block of either route: status 500 with the error's message
Caught(err, call) == Result(500, err, call)

\* { role, content, ...(function_call ? { function_call } : {}) }
Project(m) == [role |-> m.role, content |-> m.content,
               function_call |-> m.function_call]

POSTStreamNoArrayCheck(body, modelThrows) ==
    \* the streaming route without its Array.isArray test
    IF body.kind = "invalid" THEN Caught("SyntaxError", NotCalled)
    ELSE IF body.kind = "null" THEN Caught("TypeError", NotCalled)
    ELSE LET clientMessages == body.messages
             context == body.context
         IN IF ~Truthy(clientMessages)
            THEN Result(400, "invalid format", NotCalled)
            ELSE IF Truthy(context) /\ PromptThrows(context)
            THEN Caught("TypeError", NotCalled)
            ELSE LET call == [called |-> TRUE,
                              system |-> IF Truthy(context)
                                         THEN <<SystemPrompt(context)>>
                                         ELSE <<>>,
                              messages |-> clientMessages.items]
                 IN IF modelThrows THEN Caught("model error", call)
                    ELSE Result(200, "", call)

\* POST of the streaming route (streamText)
POSTStream(body, modelThrows) ==
    IF body.kind = "invalid" THEN Caught("SyntaxError", NotCalled)
    ELSE IF body.kind = "null" THEN Caught("TypeError", NotCalled)
    ELSE LET clientMessages == body.messages
             context == body.context
         IN IF ~Truthy(clientMessages) \/ clientMessages.kind # "array"
            THEN Result(400, "invalid format", NotCalled)
            ELSE IF Truthy(context) /\ PromptThrows(context)
            THEN Caught("TypeError", NotCalled)
            ELSE LET call == [called |-> TRUE,
                              system |-> IF Truthy(context)
                                         THEN <<SystemPrompt(context)>>
                                         ELSE <<>>,
                              messages |-> clientMessages.items]
                 IN IF modelThrows THEN Caught("model error", call)
                    ELSE Result(200, "", call)

ConvertedMessagesSliced(llmMessages) ==
    \* the conversion applied to messages.slice(1)
    [i \in 1..(Len(llmMessages) - 1) |-> Project(llmMessages[i + 1])]

\* messages.map(msg => ({role, content, function_call?})) of sendMessageToLLM
ConvertedMessages(llmMessages) ==
    [i \in 1..Len(llmMessages) |-> Project(llmMessages[i])]

RECURSIVE PushAll(_, _)
\* messages.forEach(msg => llmMessages.push({...})), in index order
PushAll(llmMessages, msgs) ==
    IF msgs = <<>> THEN llmMessages
    ELSE PushAll(Append(llmMessages, Project(Head(msgs))), Tail(msgs))

\* the system message the function-calling route puts first
SystemMessage(context) ==
    [role |-> "system", content |-> SystemPrompt(context),
     function_call |-> FALSE]

\* POST of the function-calling route (sendMessageToLLM)
POSTFunction(body, modelThrows) ==
    IF body.kind = "invalid" THEN Caught("SyntaxError", NotCalled)
    ELSE IF body.kind = "null" THEN Caught("TypeError", NotCalled)
    ELSE LET messages == body.messages
             context == body.context
         IN IF ~Truthy(messages) \/ messages.kind # "array"
            THEN Result(400, "invalid format", NotCalled)
            ELSE IF Truthy(context) /\ PromptThrows(context)
            THEN Caught("TypeError", NotCalled)
            \* msg.role of a null element throws inside forEach
            ELSE IF \E i \in 1..Len(messages.items) :
                        messages.items[i].kind = "null"
            THEN Caught("TypeError", NotCalled)
            ELSE LET first == IF Truthy(context)
                              THEN <<SystemMessage(context)>> ELSE <<>>
                     llmMessages == PushAll(first, messages.items)
                     call == [called |-> TRUE, system |-> <<>>,
                              messages |-> ConvertedMessages(llmMessages)]
                 IN IF modelThrows THEN Caught("model error", call)
                    ELSE Result(200, "", call)

PostRequests ==
    [route : {"stream", "function"}, body : Bodies, modelThrows : BOOLEAN]

PostStart ==
    /\ postReq \in PostRequests
    /\ postResp = NoPostResp
    /\ modelInput = NotCalled

PostIdle ==
    /\ postReq = IdlePostReq
    /\ postResp = NoPostResp
    /\ modelInput = NotCalled

HandleStreamPOST ==
    /\ postReq.route = "stream"
    /\ postResp = NoPostResp
    /\ LET r == POSTStream(postReq.body, postReq.modelThrows)
       IN postResp' = r.resp /\ modelInput' = r.call
    /\ UNCHANGED postReq
    /\ UNCHANGED <<ctxVars, llmVars, homeVars>>

HandleFunctionPOST ==
    /\ postReq.route = "function"
    /\ postResp = NoPostResp
    /\ LET r == POSTFunction(postReq.body, postReq.modelThrows)
       IN postResp' = r.resp /\ modelInput' = r.call
    /\ UNCHANGED postReq
    /\ UNCHANGED <<ctxVars, llmVars, homeVars>>

\* the client posts again: the same body to the other route, or with the
\* model answering differently
NextPostRequest ==
    /\ postResp # NoPostResp
    /\ \E rt \in {"stream", "function"}, mt \in BOOLEAN :
          postReq' = [postReq EXCEPT !.route = rt, !.modelThrows = mt]
    /\ postResp' = NoPostResp
    /\ modelInput' = NotCalled
    /\ UNCHANGED <<ctxVars, llmVars, homeVars>>

----------------------------------------------------------------------------
(* Tool calls of the model, shared by the useLLM hook and the Home page *)

\* an argument value with its typeof
StrVal(x) == [type |-> "string", str |-> x, num |-> 0]
NumVal(n) == [type |-> "number", str |-> "", num |-> n]
UndefVal == [type |-> "undefined", str |-> "", num |-> 0]

\* the arguments of a call.  form: "object" (an object), "json" (a string
\* holding the object's JSON text), "badjson" (a string JSON.parse rejects),
\* "null" (null or undefined)
Args(form, content, pageNumber) ==
    [form |-> form, content |-> content, pageNumber |-> pageNumber]

ArgForms == {"object", "json", "badjson", "null"}

ContentValues == {StrVal("A"), StrVal("B"), NumVal(7), UndefVal}
PageNumberValues == {NumVal(n) : n \in 0..(MaxPages + 1)} \cup {StrVal("2"), UndefVal}

Call(name, args) == [name |-> name, args |-> args]

\* the calls a model may ask for
FunctionCalls ==
    {Call("create_canvas", Args(f, c, UndefVal)) :
        f \in {"object", "json"}, c \in ContentValues}
    \cup {Call("switch_slide", Args(f, UndefVal, n)) :
            f \in {"object", "json"}, n \in PageNumberValues}
    \cup {Call(nm, Args(f, UndefVal, UndefVal)) :
            nm \in {"create_canvas", "switch_slide", "think"},
            f \in {"object", "badjson", "null"}}

NoCall == Call("", Args("null", UndefVal, UndefVal))

----------------------------------------------------------------------------
(* The useLLM hook *)

\* sendMessage's MAX_ITERATIONS
MAX_ITERATIONS == 5

NoCanvas == [visible |-> FALSE, content |-> ""]

\* typeof arguments === 'string' ? JSON.parse(arguments) : arguments
\* (throws for text that is not JSON)
ParseThrows(args) == args.form = "badjson"
Parsed(args) == IF args.form = "json" THEN [args EXCEPT !.form = "object"] ELSE args

\* `args && ...`: null and undefined are falsy
ArgsTruthy(args) == args.form # "null"

LoopOrFinishInclusive(msgs, moreCalls) ==
    \* the loop test written iterationCount <= MAX_ITERATIONS
    IF moreCalls /\ iterationCount <= MAX_ITERATIONS
    THEN /\ iterationCount' = iterationCount + 1
         /\ posts' = posts + 1
         /\ llmPc' = "awaitPost"
         /\ currentMessages' = msgs
         /\ hasFunctionCall' = moreCalls
         /\ UNCHANGED <<hookMessages, llmIsLoading>>
    ELSE /\ hookMessages' = msgs
         /\ llmIsLoading' = FALSE
         /\ llmPc' = "idle"
         /\ currentMessages' = msgs
         /\ hasFunctionCall' = moreCalls
         /\ UNCHANGED <<iterationCount, posts>>

\* The while loop's test followed by the next iteration's POST, or the code
\* after the loop: setMessages(currentMessages); finally setIsLoading(false)
LoopOrFinish(msgs, moreCalls) ==
    IF moreCalls /\ iterationCount < MAX_ITERATIONS
    THEN /\ iterationCount' = iterationCount + 1
         /\ posts' = posts + 1
         /\ llmPc' = "awaitPost"
         /\ currentMessages' = msgs
         /\ hasFunctionCall' = moreCalls
         /\ UNCHANGED <<hookMessages, llmIsLoading>>
    ELSE /\ hookMessages' = msgs
         /\ llmIsLoading' = FALSE
         /\ llmPc' = "idle"
         /\ currentMessages' = msgs
         /\ hasFunctionCall' = moreCalls
         /\ UNCHANGED <<iterationCount, posts>>

\* sendMessage(content): blank content returns at once
SendMessage(blank) ==
    /\ llmPc = "idle"
    /\ Len(hookMessages) <= MaxHistory
    /\ IF blank THEN UNCHANGED llmVars
       ELSE /\ llmIsLoading' = TRUE
            /\ llmError' = "null"
            /\ hookMessages' = Append(hookMessages, "user")
            /\ currentMessages' = IF llmParams.includeHistory
                                  THEN Append(hookMessages, "user")
                                  ELSE <<"user">>
            /\ hasFunctionCall' = TRUE
            \* first pass of the while loop: 0 < MAX_ITERATIONS
            /\ iterationCount' = 1
            /\ posts' = 1
            /\ plainSeen' = FALSE
            /\ llmPc' = "awaitPost"
            /\ UNCHANGED <<llmParams, llmCanvas>>
    /\ UNCHANGED <<ctxVars, postVars, homeVars>>

\* the catch and finally blocks of sendMessage
FailSend(err) ==
    /\ llmError' = err
    /\ llmIsLoading' = FALSE
    /\ llmPc' = "idle"
    /\ UNCHANGED <<llmParams, hookMessages, llmCanvas, currentMessages,
                   iterationCount, hasFunctionCall, posts, plainSeen>>

\* axios.post rejects, or the response has no choices / no message
PostFails ==
    /\ llmPc = "awaitPost"
    /\ \E err \in {"request failed", "invalid response format"} :
          FailSend(err)
    /\ UNCHANGED <<ctxVars, postVars, homeVars>>

\* the response's assistant message carries no function_call
PostReturnsPlain ==
    /\ llmPc = "awaitPost"
    /\ plainSeen' = TRUE
    /\ LoopOrFinish(Append(currentMessages, "assistant"), FALSE)
    /\ UNCHANGED <<llmParams, llmError, llmCanvas>>
    /\ UNCHANGED <<ctxVars, postVars, homeVars>>

CanvasAfterUnchecked(fc, canvas) ==
    \* create_canvas without the typeof args.content === 'string' test
    IF /\ fc.name = "create_canvas"
       /\ ~ParseThrows(fc.args)
       /\ ArgsTruthy(Parsed(fc.args))
    THEN [visible |-> TRUE, content |-> Parsed(fc.args).content.str]
    ELSE canvas

\* handleFunctionCall for a call it finishes without awaiting: the canvas
\* it sets (or the old one) and the messages it returns
CanvasAfter(fc, canvas) ==
    IF /\ fc.name = "create_canvas"
       /\ ~ParseThrows(fc.args)
       /\ ArgsTruthy(Parsed(fc.args))
       /\ Parsed(fc.args).content.type = "string"
    THEN [visible |-> TRUE, content |-> Parsed(fc.args).content.str]
    ELSE canvas

MessagesAfter(fc, msgs) ==
    IF /\ fc.name = "create_canvas"
       /\ ~ParseThrows(fc.args)
       /\ ArgsTruthy(Parsed(fc.args))
       /\ Parsed(fc.args).content.type = "string"
    THEN Append(msgs, "tool")
    ELSE msgs

\* switch_slide reaches `await onSlideChange(args.pageNumber)`
CallsOnSlideChange(fc) ==
    /\ fc.name = "switch_slide"
    /\ ~ParseThrows(fc.args)
    /\ ArgsTruthy(Parsed(fc.args))
    /\ Parsed(fc.args).pageNumber.type = "number"
    /\ llmParams.onSlideChange

\* the response's assistant message carries function_call fc
PostReturnsCall(fc) ==
    /\ llmPc = "awaitPost"
    /\ IF CallsOnSlideChange(fc)
       THEN /\ llmPc' = "awaitSlide"
            /\ currentMessages' = Append(currentMessages, "assistant")
            /\ UNCHANGED <<hookMessages, llmIsLoading, llmCanvas, iterationCount,
                           hasFunctionCall, posts>>
       ELSE /\ llmCanvas' = CanvasAfter(fc, llmCanvas)
            /\ LoopOrFinish(MessagesAfter(fc, Append(currentMessages, "assistant")),
                            TRUE)
    /\ UNCHANGED <<llmParams, llmError, plainSeen>>
    /\ UNCHANGED <<ctxVars, postVars, homeVars>>

\* onSlideChange settles: with the new context, with undefined, or rejecting
SlideChangeReturns(outcome) ==
    /\ llmPc = "awaitSlide"
    /\ LoopOrFinish(
          CASE outcome = "context"   -> currentMessages \o <<"tool", "tool">>
            [] outcome = "undefined" -> Append(currentMessages, "tool")
            [] outcome = "throws"    -> currentMessages,
          TRUE)
    /\ UNCHANGED <<llmParams, llmError, llmCanvas, plainSeen>>
    /\ UNCHANGED <<ctxVars, postVars, homeVars>>

LLMClearMessages ==
    /\ hookMessages # <<>>
    /\ hookMessages' = <<>>
    /\ UNCHANGED <<llmParams, llmIsLoading, llmError, llmCanvas, llmPc,
                   currentMessages, iterationCount, hasFunctionCall,
                   posts, plainSeen>>
    /\ UNCHANGED <<ctxVars, postVars, homeVars>>

LLMClearCanvas ==
    /\ llmCanvas # NoCanvas
    /\ llmCanvas' = NoCanvas
    /\ UNCHANGED <<llmParams, hookMessages, llmIsLoading, llmError, llmPc,
                   currentMessages, iterationCount, hasFunctionCall,
                   posts, plainSeen>>
    /\ UNCHANGED <<ctxVars, postVars, homeVars>>

LLMStart ==
    /\ llmParams \in [includeHistory : BOOLEAN, onSlideChange : BOOLEAN]
    /\ hookMessages = <<>>
    /\ llmIsLoading = FALSE
    /\ llmError = "null"
    /\ llmCanvas = NoCanvas
    /\ llmPc = "idle"
    /\ currentMessages = <<>>
    /\ iterationCount = 0
    /\ hasFunctionCall = FALSE
    /\ posts = 0
    /\ plainSeen = FALSE

\* the hook is not mounted
LLMIdle ==
    /\ llmParams = [includeHistory |-> TRUE, onSlideChange |-> FALSE]
    /\ hookMessages = <<>>
    /\ llmIsLoading = FALSE
    /\ llmError = "null"
    /\ llmCanvas = NoCanvas
    /\ llmPc = "unmounted"
    /\ currentMessages = <<>>
    /\ iterationCount = 0
    /\ hasFunctionCall = FALSE
    /\ posts = 0
    /\ plainSeen = FALSE

NextLLM ==
    \/ \E blank \in BOOLEAN : SendMessage(blank)
    \/ PostFails
    \/ PostReturnsPlain
    \/ \E fc \in FunctionCalls : PostReturnsCall(fc)
    \/ \E outcome \in {"context", "undefined", "throws"} : SlideChangeReturns(outcome)
    \/ LLMClearMessages
    \/ LLMClearCanvas

----------------------------------------------------------------------------
(* The Home page: useChat callbacks and the slide change handler *)

MAX_TOOL_CALLS == 10

NullContext == [isNull |-> TRUE, title |-> 0, content |-> 0,
                currentPage |-> 0, totalPages |-> 0]

\* { ...context, currentPage: pageNumber, totalPages }
ContextWithPageInfoSwapped(context, pageNumber, total) ==
    \* currentPage and totalPages exchanged
    [isNull |-> FALSE, title |-> context.title, content |-> context.content,
     currentPage |-> total, totalPages |-> pageNumber]

ContextWithPageInfo(context, pageNumber, total) ==
    [isNull |-> FALSE, title |-> context.title, content |-> context.content,
     currentPage |-> pageNumber, totalPages |-> total]

\* the dependency list [currentPage, pdfUrl, totalPages] of the loadContext
\* effect
LoadDeps == <<currentPage, pdfUrl, totalPages>>

\* no intro prompt appended for any page
NoIntros == [p \in 1..MaxPages |-> 0]

\* what onToolCall finds when it starts
CallStart == [started |-> TRUE, currentPage |-> currentPage,
              introGenerated |-> introGenerated]
NoCallStart == [started |-> FALSE, currentPage |-> 0, introGenerated |-> {}]

\* The values a render's closures hold.  A callback reads the state variables
\* of the render it was created in, not the state at the time it runs.
Render ==
    [toolCallCount |-> toolCallCount,
     isProcessingToolCall |-> isProcessingToolCall,
     totalPages |-> totalPages,
     pdfUrl |-> pdfUrl]

NoRender == [toolCallCount |-> 0, isProcessingToolCall |-> FALSE,
             totalPages |-> 0, pdfUrl |-> ""]

Chat(status, rend, page, id) ==
    [status |-> status, rend |-> rend, page |-> page, toolCallId |-> id]
IdleChat == Chat("idle", NoRender, 0, "")

ToolCallIds == {"call_1", "call_2"}

\* the tool calls a response may carry: the calls of FunctionCalls, whose
\* arguments arrive as an object, as null when absent, or as a string
ToolCalls ==
    {[toolCallId |-> id, toolName |-> fc.name, args |-> fc.args] :
        id \in ToolCallIds, fc \in FunctionCalls}

ToolResult(id, result, page, title) ==
    [toolCallId |-> id, result |-> result, page |-> page, title |-> title]
NoResult == ToolResult("", "none", 0, 0)

RECURSIVE ToDigits(_)
\* the decimal text of a page number in the template literal `&page=${n}`
ToDigits(n) ==
    IF n < 10 THEN <<DigitChars[n + 1]>>
    ELSE Append(ToDigits(n \div 10), DigitChars[(n % 10) + 1])

\* fetchSlideContext(pdfUrl, pageNumber): the GET of /api/context; axios
\* rejects when the request fails or the status is not 2xx.
\* (encodeURIComponent followed by the server's decoding gives pdfUrl back.)
FetchSlideContext(url, pageNumber, networkOk) ==
    LET r == GET(sampleContexts, UrlParam(url), Param(ToDigits(pageNumber)))
    IN  IF networkOk /\ r.status = 200
        THEN [ok |-> TRUE, data |-> r.body]
        ELSE [ok |-> FALSE, data |-> NoBody]

CountGuardStrict(rend) ==
    \* the guard written toolCallCount > MAX_TOOL_CALLS
    rend.toolCallCount > MAX_TOOL_CALLS

\* if (toolCallCount >= MAX_TOOL_CALLS)
CountGuard(rend) == rend.toolCallCount >= MAX_TOOL_CALLS

InvalidPageNoUpperBound(pageNumber, rend) ==
    \* the validity test without its upper bound
    pageNumber < 1

\* if (pageNumber < 1 || pageNumber > totalPages)
InvalidPage(pageNumber, rend) ==
    pageNumber < 1 \/ pageNumber > rend.totalPages

InvalidArgsTypeofOnly(args) ==
    \* only typeof toolCall.args !== 'object', which null passes
    args.form \notin {"object", "null"}

\* !toolCall.args || typeof toolCall.args !== 'object'
InvalidArgs(args) == args.form # "object"

MarkIntroSkipped(flags, pageNumber) ==
    \* handleSlideChange without its setIntroGenerated call
    flags

\* setIntroGenerated(prev => ({ ...prev, [pageNumber]: true }))
MarkIntro(flags, pageNumber) == flags \cup {pageNumber}

ScheduleFollowUpTwice(rend) ==
    \* two timers set instead of one
    timers' = timers \o <<rend, rend>>

\* setTimeout(async () => { await append(...) ... }, 100)
ScheduleFollowUp(rend) == timers' = Append(timers, rend)

\* react-pdf loaded the document: setTotalPages(numPages)
HandleDocumentLoadSuccess(numPages) ==
    /\ chat.status # "unmounted"
    /\ totalPages # numPages
    /\ totalPages' = numPages
    /\ UNCHANGED <<pdfUrl, currentPage, slideContext, introGenerated,
                   llmInitiatedPageChange, canvasContent, isProcessingToolCall,
                   toolCallCount, chat, timers, lastResult, chainTools>>
    /\ UNCHANGED <<ctxVars, postVars, llmVars>>
    /\ UNCHANGED <<fetches, loadDeps, introCount, llmPages, callStart>>

\* the user submits a message (Chat refuses while isLoading):
\* setToolCallCount(0); handleSubmit(event)
WrappedHandleSubmit ==
    /\ chat.status = "idle"
    /\ toolCallCount' = 0
    /\ chat' = Chat("streaming", Render, 0, "")
    /\ chainTools' = 0
    /\ UNCHANGED <<pdfUrl, currentPage, totalPages, slideContext, introGenerated,
                   llmInitiatedPageChange, canvasContent, isProcessingToolCall,
                   timers, lastResult>>
    /\ UNCHANGED <<ctxVars, postVars, llmVars>>
    /\ UNCHANGED <<fetches, loadDeps, introCount, llmPages, callStart>>

\* The page re-rendered while the response streams and useChat calls the
\* callbacks of the latest render from here on.
Rerender ==
    /\ chat.status = "streaming"
    /\ chat.rend # Render
    /\ chat' = [chat EXCEPT !.rend = Render]
    /\ UNCHANGED <<pdfUrl, currentPage, totalPages, slideContext, introGenerated,
                   llmInitiatedPageChange, canvasContent, isProcessingToolCall,
                   toolCallCount, timers, lastResult, chainTools>>
    /\ UNCHANGED <<ctxVars, postVars, llmVars>>
    /\ UNCHANGED <<fetches, loadDeps, introCount, llmPages, callStart>>

\* onToolCall({ toolCall }), up to its return or to the await inside
\* handleSlideChange
OnToolCall(tc) ==
    /\ chat.status = "streaming"
    /\ LET rend == chat.rend
           id == tc.toolCallId
           args == tc.args
       IN
       IF CountGuard(rend)
       THEN /\ lastResult' = ToolResult(id, "max tool calls reached", 0, 0)
            /\ UNCHANGED <<currentPage, slideContext, introGenerated,
                           llmInitiatedPageChange, canvasContent,
                           isProcessingToolCall, toolCallCount, chat, timers,
                           chainTools, llmPages>>
       ELSE
       /\ toolCallCount' = toolCallCount + 1
       /\ chainTools' = chainTools + 1
       /\ IF InvalidArgs(args)
          THEN /\ isProcessingToolCall' = FALSE
               /\ lastResult' = ToolResult(id, "invalid arguments", 0, 0)
               /\ UNCHANGED <<currentPage, slideContext, introGenerated,
                              llmInitiatedPageChange, canvasContent, chat, timers,
                              llmPages>>
          ELSE
          /\ isProcessingToolCall' = TRUE
          /\ CASE tc.toolName = "create_canvas" ->
                    /\ IF args.content.type = "string"
                       THEN /\ canvasContent' = [visible |-> TRUE,
                                                 content |-> args.content.str]
                            /\ lastResult' = ToolResult(id, "canvas created", 0, 0)
                       ELSE /\ lastResult' = ToolResult(id, "invalid content", 0, 0)
                            /\ UNCHANGED canvasContent
                    /\ ScheduleFollowUp(rend)
                    /\ UNCHANGED <<currentPage, slideContext, introGenerated,
                                   llmInitiatedPageChange, chat, llmPages>>
               [] tc.toolName = "switch_slide" ->
                    IF args.pageNumber.type # "number"
                    THEN /\ lastResult' = ToolResult(id, "invalid pageNumber", 0, 0)
                         /\ ScheduleFollowUp(rend)
                         /\ UNCHANGED <<currentPage, slideContext, introGenerated,
                                        llmInitiatedPageChange, canvasContent, chat,
                                        llmPages>>
                    ELSE IF InvalidPage(args.pageNumber.num, rend)
                    \* handleSlideChange returns undefined
                    THEN /\ lastResult' = ToolResult(id, "failed to switch",
                                                     args.pageNumber.num, 0)
                         /\ ScheduleFollowUp(rend)
                         /\ UNCHANGED <<currentPage, slideContext, introGenerated,
                                        llmInitiatedPageChange, canvasContent, chat,
                                        llmPages>>
                    \* handleSlideChange up to `await fetchSlideContext`
                    ELSE /\ llmInitiatedPageChange' = TRUE
                         /\ introGenerated' = MarkIntro(introGenerated, args.pageNumber.num)
                         /\ llmPages' = llmPages \cup {args.pageNumber.num}
                         /\ currentPage' = args.pageNumber.num
                         /\ chat' = Chat("awaitSlide", rend, args.pageNumber.num, id)
                         /\ UNCHANGED <<slideContext, canvasContent, timers,
                                        lastResult>>
               [] OTHER ->
                    /\ lastResult' = ToolResult(id, "not implemented", 0, 0)
                    /\ ScheduleFollowUp(rend)
                    /\ UNCHANGED <<currentPage, slideContext, introGenerated,
                                   llmInitiatedPageChange, canvasContent, chat,
                                        llmPages>>
    /\ UNCHANGED <<pdfUrl, totalPages>>
    /\ UNCHANGED <<ctxVars, postVars, llmVars>>
    /\ callStart' = CallStart
    /\ UNCHANGED <<fetches, loadDeps, introCount>>

\* fetchSlideContext settles: the rest of handleSlideChange and of onToolCall
SlideFetchDone(networkOk) ==
    /\ chat.status = "awaitSlide"
    /\ LET rend == chat.rend
           pageNumber == chat.page
           got == FetchSlideContext(rend.pdfUrl, pageNumber, networkOk)
       IN  /\ IF got.ok
              THEN /\ slideContext' =
                        ContextWithPageInfo(got.data, pageNumber, rend.totalPages)
                   /\ lastResult' = ToolResult(chat.toolCallId, "switched",
                                               pageNumber, got.data.title)
              ELSE /\ lastResult' = ToolResult(chat.toolCallId, "failed to switch",
                                               pageNumber, 0)
                   /\ UNCHANGED slideContext
           /\ ScheduleFollowUp(rend)
           /\ chat' = Chat("streaming", rend, 0, "")
    /\ UNCHANGED <<pdfUrl, currentPage, totalPages, introGenerated,
                   llmInitiatedPageChange, canvasContent, isProcessingToolCall,
                   toolCallCount, chainTools>>
    /\ UNCHANGED <<ctxVars, postVars, llmVars>>
    /\ UNCHANGED <<fetches, loadDeps, introCount, llmPages, callStart>>

\* onFinish; when the request was a follow-up, the timer callback's
\* finally { setIsProcessingToolCall(false) } runs right after
OnFinish ==
    /\ chat.status = "streaming"
    /\ isProcessingToolCall' = FALSE
    /\ toolCallCount' = IF ~chat.rend.isProcessingToolCall THEN 0 ELSE toolCallCount
    /\ chat' = IdleChat
    /\ lastResult' = NoResult
    /\ UNCHANGED <<pdfUrl, currentPage, totalPages, slideContext, introGenerated,
                   llmInitiatedPageChange, canvasContent, timers, chainTools>>
    /\ UNCHANGED <<ctxVars, postVars, llmVars>>
    /\ callStart' = NoCallStart
    /\ UNCHANGED <<fetches, loadDeps, introCount, llmPages>>

\* onError
OnError ==
    /\ chat.status = "streaming"
    /\ isProcessingToolCall' = FALSE
    /\ toolCallCount' = 0
    /\ chat' = IdleChat
    /\ lastResult' = NoResult
    /\ UNCHANGED <<pdfUrl, currentPage, totalPages, slideContext, introGenerated,
                   llmInitiatedPageChange, canvasContent, timers, chainTools>>
    /\ UNCHANGED <<ctxVars, postVars, llmVars>>
    /\ callStart' = NoCallStart
    /\ UNCHANGED <<fetches, loadDeps, introCount, llmPages>>

\* a follow-up timer fires: append({ role: 'system', ... }) starts a request
\* through the append of the render that scheduled it
FollowUpFires ==
    /\ timers # <<>>
    /\ chat.status = "idle"
    /\ chat' = Chat("streaming", Head(timers), 0, "")
    /\ timers' = Tail(timers)
    /\ UNCHANGED <<pdfUrl, currentPage, totalPages, slideContext, introGenerated,
                   llmInitiatedPageChange, canvasContent, isProcessingToolCall,
                   toolCallCount, lastResult, chainTools>>
    /\ UNCHANGED <<ctxVars, postVars, llmVars>>
    /\ UNCHANGED <<fetches, loadDeps, introCount, llmPages, callStart>>

\* clearMessages: setMessages([]); setIntroGenerated({}); setToolCallCount(0)
ClearMessages ==
    /\ chat.status # "unmounted"
    /\ introGenerated' = {}
    /\ toolCallCount' = 0
    /\ chainTools' = 0
    /\ UNCHANGED <<pdfUrl, currentPage, totalPages, slideContext,
                   llmInitiatedPageChange, canvasContent, isProcessingToolCall,
                   chat, timers, lastResult>>
    /\ UNCHANGED <<ctxVars, postVars, llmVars>>
    /\ introCount' = NoIntros
    /\ llmPages' = {}
    /\ UNCHANGED <<fetches, loadDeps, callStart>>

\* numPages of the document react-pdf loads from a URL
PagesOf(url) == IF url = "/sample.pdf" THEN MaxPages ELSE UploadPages

\* handleFileChange with a file chosen: setPdfUrl(fileURL); setCurrentPage(1);
\* clearMessages(); clearCanvas(); setIntroGenerated({});
\* setLlmInitiatedPageChange(false)
HandleFileChange ==
    /\ chat.status # "unmounted"
    /\ pdfUrl' = "blob:upload"
    /\ currentPage' = 1
    /\ introGenerated' = {}
    /\ toolCallCount' = 0
    /\ canvasContent' = NoCanvas
    /\ llmInitiatedPageChange' = FALSE
    /\ chainTools' = 0
    /\ introCount' = NoIntros
    /\ llmPages' = {}
    /\ UNCHANGED <<totalPages, slideContext, isProcessingToolCall, chat, timers,
                   lastResult, fetches, loadDeps, callStart>>
    /\ UNCHANGED <<ctxVars, postVars, llmVars>>

\* handleUserPageChange(pageNumber)
HandleUserPageChange(pageNumber) ==
    /\ llmInitiatedPageChange' = FALSE
    /\ currentPage' = pageNumber
    /\ UNCHANGED <<pdfUrl, totalPages, slideContext, introGenerated,
                   canvasContent, isProcessingToolCall, toolCallCount, chat,
                   timers, lastResult, chainTools, fetches, loadDeps,
                   introCount, llmPages, callStart>>
    /\ UNCHANGED <<ctxVars, postVars, llmVars>>

\* PDFViewer goToPrevPage
GoToPrevPage ==
    /\ chat.status # "unmounted"
    /\ currentPage > 1
    /\ HandleUserPageChange(currentPage - 1)

\* PDFViewer goToNextPage
GoToNextPage ==
    /\ chat.status # "unmounted"
    /\ currentPage < totalPages
    /\ HandleUserPageChange(currentPage + 1)

\* a fetch of loadContext with the values of the render whose effect runs
Fetch(url, page, total) == [pdfUrl |-> url, page |-> page, totalPages |-> total]

\* the loadContext effect runs because currentPage, pdfUrl or totalPages
\* changed: up to `await fetchSlideContext`, or the early return
LoadContextEffect ==
    /\ chat.status # "unmounted"
    /\ LoadDeps # loadDeps
    /\ loadDeps' = LoadDeps
    /\ IF pdfUrl = "" \/ totalPages = 0
       THEN UNCHANGED fetches
       ELSE /\ Cardinality(fetches) < MaxFetches
            /\ fetches' = fetches \cup {Fetch(pdfUrl, currentPage, totalPages)}
    /\ UNCHANGED <<pdfUrl, currentPage, totalPages, slideContext, introGenerated,
                   llmInitiatedPageChange, canvasContent, isProcessingToolCall,
                   toolCallCount, chat, timers, lastResult, chainTools,
                   introCount, llmPages, callStart>>
    /\ UNCHANGED <<ctxVars, postVars, llmVars>>

\* a fetch of loadContext settles: setSlideContext(contextWithPageInfo), or
\* setSlideContext(null) in the catch
LoadContextDone(f, networkOk) ==
    /\ f \in fetches
    /\ fetches' = fetches \ {f}
    /\ LET got == FetchSlideContext(f.pdfUrl, f.page, networkOk)
       IN  slideContext' = IF got.ok
                           THEN ContextWithPageInfo(got.data, f.page, f.totalPages)
                           ELSE NullContext
    /\ UNCHANGED <<pdfUrl, currentPage, totalPages, introGenerated,
                   llmInitiatedPageChange, canvasContent, isProcessingToolCall,
                   toolCallCount, chat, timers, lastResult, chainTools, loadDeps,
                   introCount, llmPages, callStart>>
    /\ UNCHANGED <<ctxVars, postVars, llmVars>>

\* useChat's isLoading
IsLoading == chat.status # "idle"

IntroDueUnflagged(page) ==
    \* the test without !introGenerated[page]
    /\ ~slideContext.isNull
    /\ ~llmInitiatedPageChange
    /\ ~IsLoading
    /\ slideContext.currentPage = page

\* slideContext && !introGenerated[page] && !llmInitiatedPageChange &&
\* !isLoading, and slideContext.currentPage === page
IntroDue(page) ==
    /\ ~slideContext.isNull
    /\ page \notin introGenerated
    /\ ~llmInitiatedPageChange
    /\ ~IsLoading
    /\ slideContext.currentPage = page

\* The intro effect runs.  `append` is one of its dependencies, so it may run
\* after any render; a run changes something only when the intro is due or
\* the flag is set.  page is currentPageRef.current, which an earlier effect
\* of the same commit set to currentPage.
IntroEffect ==
    /\ chat.status # "unmounted"
    /\ LET page == currentPage IN
       /\ IntroDue(page) \/ llmInitiatedPageChange
       /\ IF IntroDue(page)
          THEN /\ introCount[page] < MaxIntros
               \* append({ role: 'user', content: introPrompt })
               /\ chat' = Chat("streaming", Render, 0, "")
               /\ introGenerated' = introGenerated \cup {page}
               /\ introCount' = [introCount EXCEPT ![page] = @ + 1]
          ELSE UNCHANGED <<chat, introGenerated, introCount>>
       /\ llmInitiatedPageChange' = FALSE
    /\ UNCHANGED <<pdfUrl, currentPage, totalPages, slideContext, canvasContent,
                   isProcessingToolCall, toolCallCount, timers, lastResult,
                   chainTools, fetches, loadDeps, llmPages, callStart>>
    /\ UNCHANGED <<ctxVars, postVars, llmVars>>

HomeStart ==
    /\ pdfUrl = "/sample.pdf"
    /\ currentPage = 1
    /\ totalPages = 0
    /\ slideContext = NullContext
    /\ introGenerated = {}
    /\ llmInitiatedPageChange = FALSE
    /\ canvasContent = NoCanvas
    /\ isProcessingToolCall = FALSE
    /\ toolCallCount = 0
    /\ chat = IdleChat
    /\ timers = <<>>
    /\ lastResult = NoResult
    /\ chainTools = 0
    /\ fetches = {}
    /\ loadDeps = <<1, "/sample.pdf", 0>>
    /\ introCount = NoIntros
    /\ llmPages = {}
    /\ callStart = NoCallStart

\* the page is not mounted
HomeIdle ==
    /\ pdfUrl = "/sample.pdf"
    /\ currentPage = 1
    /\ totalPages = 0
    /\ slideContext = NullContext
    /\ introGenerated = {}
    /\ llmInitiatedPageChange = FALSE
    /\ canvasContent = NoCanvas
    /\ isProcessingToolCall = FALSE
    /\ toolCallCount = 0
    /\ chat = Chat("unmounted", NoRender, 0, "")
    /\ timers = <<>>
    /\ lastResult = NoResult
    /\ chainTools = 0
    /\ fetches = {}
    /\ loadDeps = <<1, "/sample.pdf", 0>>
    /\ introCount = NoIntros
    /\ llmPages = {}
    /\ callStart = NoCallStart

\* the tool calls drawn where the chain of follow-ups runs to its cap; each
\* of them passes the argument check and so schedules a follow-up
ChainCalls ==
    {[toolCallId |-> "call_1", toolName |-> "create_canvas",
      args |-> Args("object", StrVal("A"), UndefVal)],
     [toolCallId |-> "call_2", toolName |-> "switch_slide",
      args |-> Args("object", UndefVal, NumVal(MaxPages))],
     [toolCallId |-> "call_1", toolName |-> "think",
      args |-> Args("object", UndefVal, UndefVal)]}

\* the response being streamed carries a tool call of `calls`; `cap` bounds
\* the calls drawn after one user action
ToolCallArrives(calls, cap) ==
    /\ Len(timers) < MaxTimers
    /\ chainTools < cap
    /\ toolCallCount <= MAX_TOOL_CALLS
    /\ \E tc \in calls : OnToolCall(tc)

\* the Home page with the follow-up chain running as long as MAX_TOOL_CALLS
\* allows and beyond
NextHome ==
    \/ HandleDocumentLoadSuccess(MaxPages)
    \/ WrappedHandleSubmit
    \/ Rerender
    \/ ToolCallArrives(ChainCalls, MAX_TOOL_CALLS + 1)
    \/ \E networkOk \in BOOLEAN : SlideFetchDone(networkOk)
    \/ OnFinish
    \/ OnError
    \/ FollowUpFires
    \/ ClearMessages

\* the Home page with every kind of tool call, in short chains
NextTools ==
    \/ HandleDocumentLoadSuccess(MaxPages)
    \/ WrappedHandleSubmit
    \/ Rerender
    \/ ToolCallArrives(ToolCalls, MaxChain)
    \/ \E networkOk \in BOOLEAN : SlideFetchDone(networkOk)
    \/ OnFinish
    \/ OnError
    \/ FollowUpFires
    \/ ClearMessages

----------------------------------------------------------------------------
(* Specifications *)

InitContext == ContextStart /\ PostIdle /\ LLMIdle /\ HomeIdle
NextContext == ServeContext \/ NextContextRequest
SpecContext == InitContext /\ [][NextContext]_vars

InitChat == PostStart /\ ContextIdle /\ LLMIdle /\ HomeIdle
NextChat == HandleStreamPOST \/ HandleFunctionPOST \/ NextPostRequest
SpecChat == InitChat /\ [][NextChat]_vars

InitLLM == LLMStart /\ ContextIdle /\ PostIdle /\ HomeIdle
\* every request the hook awaits returns
LLMFairness ==
    /\ WF_vars(PostFails \/ PostReturnsPlain \/ \E fc \in FunctionCalls : PostReturnsCall(fc))
    /\ WF_vars(\E outcome \in {"context", "undefined", "throws"} : SlideChangeReturns(outcome))
SpecLLM == InitLLM /\ [][NextLLM]_vars /\ LLMFairness

Init == HomeStart /\ ContextIdle /\ PostIdle /\ LLMIdle
Next == NextHome
Spec == Init /\ [][Next]_vars

SpecTools == Init /\ [][NextTools]_vars

\* one of the two chat front ends is mounted: the Home page or useLLM
InitCanvas ==
    /\ \/ HomeStart /\ LLMIdle
       \/ HomeIdle /\ LLMStart
    /\ ContextIdle /\ PostIdle
NextCanvas == NextTools \/ NextLLM
SpecCanvas == InitCanvas /\ [][NextCanvas]_vars

\* the tool calls of a response that carries several of them: those of
\* ChainCalls and calls without arguments, which schedule no follow-up
BurstCalls ==
    ChainCalls \cup
    {[toolCallId |-> id, toolName |-> "create_canvas",
      args |-> Args("null", UndefVal, UndefVal)] : id \in ToolCallIds}

\* the Home page with responses that carry several tool calls
NextBurst ==
    \/ HandleDocumentLoadSuccess(MaxPages)
    \/ WrappedHandleSubmit
    \/ Rerender
    \/ ToolCallArrives(BurstCalls, MAX_TOOL_CALLS + 1)
    \/ \E networkOk \in BOOLEAN : SlideFetchDone(networkOk)
    \/ OnFinish
    \/ OnError
    \/ FollowUpFires
    \/ ClearMessages
SpecBurst == Init /\ [][NextBurst]_vars

\* the switch_slide calls drawn where the user navigates and uploads as well
PageSwitchCalls ==
    {[toolCallId |-> "call_1", toolName |-> "switch_slide",
      args |-> Args("object", UndefVal, NumVal(n))] : n \in 1..MaxPages}

\* the Home page with its viewer, the loadContext effect and the
\* slide-switching tool, one tool call per request
NextPages ==
    \/ HandleDocumentLoadSuccess(PagesOf(pdfUrl))
    \/ HandleFileChange
    \/ GoToPrevPage
    \/ GoToNextPage
    \/ LoadContextEffect
    \/ \E f \in fetches, networkOk \in BOOLEAN : LoadContextDone(f, networkOk)
    \/ WrappedHandleSubmit
    \/ Rerender
    \/ ToolCallArrives(PageSwitchCalls, 1)
    \/ \E networkOk \in BOOLEAN : SlideFetchDone(networkOk)
    \/ OnFinish
    \/ FollowUpFires
SpecPages == Init /\ [][NextPages]_vars

\* the same with the intro effect and the clearing of the conversation; the
\* callbacks of a request are those of the render that started it
NextIntro ==
    \/ HandleDocumentLoadSuccess(PagesOf(pdfUrl))
    \/ HandleFileChange
    \/ GoToPrevPage
    \/ GoToNextPage
    \/ LoadContextEffect
    \/ \E f \in fetches, networkOk \in BOOLEAN : LoadContextDone(f, networkOk)
    \/ IntroEffect
    \/ WrappedHandleSubmit
    \/ ToolCallArrives(PageSwitchCalls, 1)
    \/ \E networkOk \in BOOLEAN : SlideFetchDone(networkOk)
    \/ OnFinish
    \/ FollowUpFires
    \/ ClearMessages
SpecIntro == Init /\ [][NextIntro]_vars

----------------------------------------------------------------------------
(* Claims *)

\* C1: one sendMessage call with non-blank content issues at most
\* MAX_ITERATIONS POSTs to /api/chat whatever the model answers, has no
\* request in flight (and issues none) once a response without function_call
\* has arrived, and returns when every request it awaits returns.
C1_PostsBoundedAndTerminates ==
    /\ [](posts <= MAX_ITERATIONS /\ (plainSeen => llmPc = "idle"))
    /\ (llmPc # "idle") ~> (llmPc = "idle")

\* C1 witness: a call ended by the iteration cap, every response having
\* carried a function_call
C1_Witness ==
    /\ llmPc = "idle"
    /\ posts = MAX_ITERATIONS
    /\ ~plainSeen
    /\ llmError = "null"

\* The deck GET /api/context selects for a pdfUrl string: the own entry, the
\* sample deck when the lookup is undefined, no deck for an inherited property
SelectedPages(u) ==
    IF u \in DOMAIN sampleContexts THEN DOMAIN sampleContexts[u]
    ELSE IF u \in ObjectPrototypeKeys THEN {}
    ELSE DOMAIN sampleContexts["/sample.pdf"]

\* C2: after a user submission the automatic chain of tool call, follow-up
\* append and next response runs at most MAX_TOOL_CALLS tool calls that are
\* not refused, with the resets of onFinish and onError taken into account.
C2_ChainBounded == chainTools <= MAX_TOOL_CALLS

SwitchCalls ==
    {tc \in ToolCalls : /\ tc.toolName = "switch_slide"
                        /\ tc.args.form = "object"
                        /\ tc.args.pageNumber.type = "number"}

\* C4: a switch_slide call that is not refused, with a number pageNumber and
\* 1 <= pageNumber <= totalPages (as the handler's closure holds it), sets
\* currentPage to pageNumber; when its context fetch succeeds it sets
\* slideContext to the fetched context with currentPage = pageNumber and that
\* totalPages, and returns 'Successfully switched to slide <pageNumber>. New
\* context: <title>' for the call's toolCallId.
C4_SwitchSlideSucceeds ==
    [][/\ \A tc \in SwitchCalls :
            LET p == tc.args.pageNumber.num IN
            (/\ chat.rend.toolCallCount < MAX_TOOL_CALLS
             /\ 1 <= p /\ p <= chat.rend.totalPages
             /\ OnToolCall(tc))
            => /\ currentPage' = p
               /\ chat'.status = "awaitSlide"
               /\ chat'.page = p
               /\ chat'.toolCallId = tc.toolCallId
       /\ LET got == FetchSlideContext(chat.rend.pdfUrl, chat.page, TRUE) IN
          (SlideFetchDone(TRUE) /\ got.ok)
            => /\ slideContext' =
                     [isNull |-> FALSE,
                      title |-> got.data.title,
                      content |-> got.data.content,
                      currentPage |-> chat.page,
                      totalPages |-> chat.rend.totalPages]
               /\ lastResult' =
                     ToolResult(chat.toolCallId, "switched", chat.page,
                                got.data.title)
               /\ currentPage' = currentPage]_vars

\* C4 witness: the switch to the last slide succeeded
C4_Witness ==
    /\ lastResult.result = "switched"
    /\ lastResult.page = MaxPages
    /\ currentPage = MaxPages
    /\ slideContext.currentPage = MaxPages
    /\ slideContext.totalPages = MaxPages

\* the create_canvas calls of the Home page and of useLLM
CanvasToolCalls == {tc \in ToolCalls : tc.toolName = "create_canvas"}
CanvasFunctionCalls == {fc \in FunctionCalls : fc.name = "create_canvas"}

\* C5: a create_canvas call whose content is a string sets canvasContent to
\* {visible: true, content}, replacing the earlier content, and reports
\* success (page.tsx: the 'Canvas created' result; useLLM: one tool message
\* appended); one whose content is missing or not a string leaves
\* canvasContent unchanged and reports an error (page.tsx) or appends no tool
\* message (useLLM).
C5_CreateCanvas ==
    [][/\ \A tc \in CanvasToolCalls :
            (chat.rend.toolCallCount < MAX_TOOL_CALLS /\ OnToolCall(tc))
            => IF tc.args.form = "object" /\ tc.args.content.type = "string"
               THEN /\ canvasContent' = [visible |-> TRUE,
                                         content |-> tc.args.content.str]
                    /\ lastResult' =
                          ToolResult(tc.toolCallId, "canvas created", 0, 0)
               ELSE /\ canvasContent' = canvasContent
                    /\ lastResult'.toolCallId = tc.toolCallId
                    /\ lastResult'.result \in {"invalid content", "invalid arguments"}
       /\ \A fc \in CanvasFunctionCalls :
            PostReturnsCall(fc)
            => IF fc.args.form \in {"object", "json"} /\ fc.args.content.type = "string"
               THEN /\ llmCanvas' = [visible |-> TRUE,
                                     content |-> fc.args.content.str]
                    /\ currentMessages' = currentMessages \o <<"assistant", "tool">>
               ELSE /\ llmCanvas' = llmCanvas
                    /\ currentMessages' = Append(currentMessages, "assistant")]_vars

\* C5 witness: the Home page shows canvas content B after a successful call
C5_Witness ==
    /\ lastResult.result = "canvas created"
    /\ canvasContent = [visible |-> TRUE, content |-> "B"]

\* C10: a switch_slide call that is not refused whose pageNumber is a number
\* < 1 or > totalPages (as the handler's closure holds it) starts no context
\* fetch, leaves currentPage, slideContext, introGenerated and
\* llmInitiatedPageChange unchanged, and returns the 'Failed to switch to
\* slide <pageNumber>' error for the call's toolCallId.
C10_InvalidPageRejected ==
    [][\A tc \in SwitchCalls :
          LET p == tc.args.pageNumber.num IN
          (/\ chat.rend.toolCallCount < MAX_TOOL_CALLS
           /\ (p < 1 \/ p > chat.rend.totalPages)
           /\ OnToolCall(tc))
          => /\ UNCHANGED <<currentPage, slideContext, introGenerated,
                            llmInitiatedPageChange>>
             /\ chat'.status = "streaming"
             /\ lastResult' = ToolResult(tc.toolCallId, "failed to switch", p, 0)]_vars

\* C10 witness: with the document loaded, a switch beyond the last slide was
\* answered with the error and no fetch is in flight
C10_Witness ==
    /\ lastResult.result = "failed to switch"
    /\ lastResult.page = MaxPages + 1
    /\ chat.rend.totalPages = MaxPages
    /\ chat.status = "streaming"

\* the results with which a switch_slide call reports an error
SwitchErrors == {"failed to switch", "invalid pageNumber"}

\* C11: whenever a switch_slide tool call on the Home page returns an error
\* result (invalid page, failed context fetch, missing or non-number
\* pageNumber), currentPage and introGenerated have the values they had when
\* the call began.
C11_ErrorLeavesPage ==
    [][((\/ \E tc \in ToolCalls : tc.toolName = "switch_slide" /\ OnToolCall(tc)
         \/ \E ok \in BOOLEAN : SlideFetchDone(ok))
        /\ lastResult'.result \in SwitchErrors)
       => /\ currentPage' = callStart'.currentPage
          /\ introGenerated' = callStart'.introGenerated]_vars

\* C12: in every reachable state of the Home page currentPage >= 1 and,
\* whenever totalPages > 0, currentPage <= totalPages, for any interleaving of
\* previous/next navigation, switch_slide calls, PDF uploads and document-load
\* events.
C12_CurrentPageInRange ==
    /\ currentPage >= 1
    /\ totalPages > 0 => currentPage <= totalPages

\* C13: in every reachable state of the Home page
\* 0 <= toolCallCount <= MAX_TOOL_CALLS, also when one response carries
\* several tool calls handled by closures that read the same rendered
\* toolCallCount.
C13_CountInRange == 0 <= toolCallCount /\ toolCallCount <= MAX_TOOL_CALLS

\* C14: every onToolCall invocation that passes the count guard and the
\* 'args is an object' guard schedules exactly one follow-up request when it
\* produces its result, whatever the outcome (success, argument error, failed
\* slide switch, unknown tool); an invocation stopped by either guard
\* schedules none.  An invocation that awaits the slide's context schedules
\* nothing before the fetch settles and one follow-up when it does.
C14_FollowUpScheduled ==
    [][/\ \A tc \in ToolCalls :
            OnToolCall(tc)
            => IF \/ chat.rend.toolCallCount >= MAX_TOOL_CALLS
                  \/ tc.args.form # "object"
               THEN timers' = timers
               ELSE IF /\ tc.toolName = "switch_slide"
                       /\ tc.args.pageNumber.type = "number"
                       /\ 1 <= tc.args.pageNumber.num
                       /\ tc.args.pageNumber.num <= chat.rend.totalPages
               THEN timers' = timers /\ chat'.status = "awaitSlide"
               ELSE Len(timers') = Len(timers) + 1 /\ lastResult'.result # "none"
       /\ \A networkOk \in BOOLEAN :
            SlideFetchDone(networkOk)
            => Len(timers') = Len(timers) + 1 /\ lastResult'.result # "none"]_vars

\* C14 witness: an unknown tool was answered and its follow-up is pending
C14_Witness ==
    /\ lastResult.result = "not implemented"
    /\ Len(timers) = 1

\* the tool calls that are neither a create_canvas with string content nor a
\* switch_slide with a number pageNumber
NoEffectCalls ==
    {tc \in ToolCalls :
        /\ ~(/\ tc.toolName = "create_canvas" /\ tc.args.form = "object"
              /\ tc.args.content.type = "string")
        /\ ~(/\ tc.toolName = "switch_slide" /\ tc.args.form = "object"
              /\ tc.args.pageNumber.type = "number")}

\* C15: for every tool call that is not a create_canvas with string content
\* nor a switch_slide with a number pageNumber (unknown tool, args missing or
\* not an object, wrong argument type), canvasContent, currentPage,
\* slideContext, introGenerated and llmInitiatedPageChange are unchanged and
\* the result carries the call's toolCallId and is the refusal, the error of
\* the failed check, or the 'not implemented' text.
C15_OnlyTwoToolsHaveEffects ==
    [][\A tc \in NoEffectCalls :
          OnToolCall(tc)
          => /\ UNCHANGED <<canvasContent, currentPage, slideContext,
                            introGenerated, llmInitiatedPageChange>>
             /\ lastResult'.toolCallId = tc.toolCallId
             /\ lastResult'.result =
                   IF chat.rend.toolCallCount >= MAX_TOOL_CALLS
                   THEN "max tool calls reached"
                   ELSE IF tc.args.form # "object" THEN "invalid arguments"
                   ELSE IF tc.toolName = "create_canvas" THEN "invalid content"
                   ELSE IF tc.toolName = "switch_slide" THEN "invalid pageNumber"
                   ELSE "not implemented"]_vars

\* C15 witness: a call without arguments was answered with the error, the
\* canvas and the slide as they were at the start
C15_Witness ==
    /\ lastResult.result = "invalid arguments"
    /\ lastResult.toolCallId = "call_2"
    /\ canvasContent = NoCanvas
    /\ currentPage = 1

\* C16: the automatic introduction prompt is generated at most once per
\* page: between two resets of introGenerated (clearing the conversation or
\* uploading a PDF) the intro effect appends the prompt for a page at most
\* once, over any sequence of page changes, context loads and isLoading
\* transitions.
C16_IntroAtMostOnce == \A p \in 1..MaxPages : introCount[p] <= 1

\* C16 witness: the intro for the current page was appended, the response has
\* ended and the page's context is loaded, so only the page's flag keeps the
\* effect from appending again
C16_Witness ==
    /\ introCount[currentPage] = 1
    /\ ~IsLoading
    /\ ~llmInitiatedPageChange
    /\ ~slideContext.isNull
    /\ slideContext.currentPage = currentPage

\* C17: a slide switch initiated by the LLM prevents the automatic
\* introduction: once handleSlideChange has accepted page p, no intro prompt
\* is appended for p, neither when the new slideContext arrives nor when
\* isLoading later becomes false, until the conversation is cleared or a PDF
\* is uploaded.
C17_NoIntroAfterLLMSwitch ==
    [][\A p \in 1..MaxPages :
          (p \in llmPages /\ p \in llmPages') => introCount'[p] = introCount[p]]_vars

\* C17 witness: the LLM switched to the slide shown, its context has arrived,
\* the response has ended and llmInitiatedPageChange is reset, and no intro
\* was appended for it
C17_Witness ==
    /\ currentPage \in llmPages
    /\ introCount[currentPage] = 0
    /\ ~IsLoading
    /\ ~llmInitiatedPageChange
    /\ ~slideContext.isNull
    /\ slideContext.currentPage = currentPage

\* C18: slideContext follows the current page even when context fetches
\* complete out of order: in every state where no fetchSlideContext request
\* is in flight (none of loadContext, none of handleSlideChange, and the
\* loadContext effect has run for the current page) and slideContext is not
\* null, slideContext.currentPage equals currentPage.
C18_ContextFollowsPage ==
    (/\ fetches = {}
     /\ chat.status # "awaitSlide"
     /\ loadDeps = LoadDeps
     /\ ~slideContext.isNull)
    => slideContext.currentPage = currentPage

\* C6: GET /api/context answers exactly one of four outcomes, decided in this
\* order: 400 "missing" when pdfUrl or page is absent or empty; 400 "invalid
\* page" when page parses to NaN or to a value < 1; 404 when the selected deck
\* has no entry for the page; otherwise 200 with the stored context.  For the
\* sample deck pages 1..10 give 200 and every page > 10 gives 404.
C6_ContextOutcomes ==
    ctxResp # NoResponse =>
        LET u == ctxReq.pdfUrl
            p == ctxReq.page
            missing == Falsy(u) \/ Falsy(p)
            n == ParseInt(p.str)
            invalid == ~missing /\ (n.nan \/ n.val < 1)
            noEntry == ~missing /\ ~invalid /\ n.val \notin SelectedPages(u.str)
            found == ~missing /\ ~invalid /\ ~noEntry
        IN  /\ ctxResp.status \in {200, 400, 404}
            /\ missing <=> (ctxResp.status = 400 /\ ctxResp.error = "missing")
            /\ invalid <=> (ctxResp.status = 400 /\ ctxResp.error = "invalid page")
            /\ noEntry <=> ctxResp.status = 404
            /\ found <=> ctxResp.status = 200
            /\ found => ctxResp.body = [title |-> n.val, content |-> n.val]
            /\ (~missing /\ ~invalid /\ u.str = "/sample.pdf") =>
                  /\ n.val \in 1..NumSamplePages => ctxResp.status = 200
                  /\ n.val > NumSamplePages => ctxResp.status = 404

\* C6 witness: page 11 of the sample deck was answered 404
C6_Witness ==
    /\ ctxResp.status = 404
    /\ ctxReq.pdfUrl.str = "/sample.pdf"
    /\ ctxReq.page.str = <<"1", "1">>

\* C7: for every pdfUrl that is not a key of SAMPLE_CONTEXTS and every page,
\* the response equals the response for pdfUrl = '/sample.pdf' with that page.
C7_UnknownUrlSameAsSample ==
    (/\ ctxResp # NoResponse
     /\ ~Falsy(ctxReq.pdfUrl)
     /\ ctxReq.pdfUrl.str \notin DOMAIN sampleContexts)
    => ctxResp = GET(sampleContexts, UrlParam("/sample.pdf"), ctxReq.page)

\* what the model received, as one list: the system prompts, then the messages
Flatten(call) ==
    [i \in 1..Len(call.system) |->
        [role |-> "system", content |-> call.system[i], function_call |-> FALSE]]
    \o call.messages

\* C8: whenever POST /api/chat calls the model, the messages it sends are the
\* request's messages in the same order, none added, dropped or reordered,
\* preceded by exactly one system prompt built from the context if and only
\* if the request's context is truthy.
C8_HistoryForwarded ==
    modelInput.called =>
        LET msgs == postReq.body.messages.items
            ctx  == postReq.body.context
            sent == Flatten(modelInput)
            k    == IF Truthy(ctx) THEN 1 ELSE 0
        IN  /\ Len(sent) = k + Len(msgs)
            /\ k = 1 => /\ sent[1].role = "system"
                        /\ sent[1].content = SystemPrompt(ctx)
            /\ \A i \in 1..Len(msgs) : Project(sent[k + i]) = Project(msgs[i])

\* C8 witness: the function-calling route forwarded a two-message history
\* behind the system prompt
C8_Witness ==
    /\ modelInput.called
    /\ postReq.route = "function"
    /\ Truthy(postReq.body.context)
    /\ Len(postReq.body.messages.items) = 2
    /\ postReq.body.messages.items[1] # postReq.body.messages.items[2]

\* C9: POST /api/chat answers 400 without calling the model whenever the
\* body's messages field is missing or not an array, answers 500 with an
\* error message whenever the model call or the parsing of the body (a syntax
\* error, or the destructuring of a null body) throws, and every request is
\* answered with a response: no exception leaves the handler.
C9_ErrorStatuses ==
    postResp # NoPostResp =>
        LET b == postReq.body IN
        /\ postResp.status \in {200, 400, 500}
        /\ (/\ b.kind \in {"primitive", "object"}
            /\ (~Truthy(b.messages) \/ b.messages.kind # "array"))
           => (postResp.status = 400 /\ ~modelInput.called)
        /\ b.kind \in {"invalid", "null"}
           => (postResp.status = 500 /\ postResp.error # "")
        /\ (modelInput.called /\ postReq.modelThrows)
           => (postResp.status = 500 /\ postResp.error = "model error")

\* C9 witness: a body whose messages field is a string was answered 400
C9_Witness ==
    /\ postResp.status = 400
    /\ postReq.body.kind = "object"
    /\ postReq.body.messages.kind = "string"
    /\ ~modelInput.called

====
